---- MODULE Spec2Model ----
(***************************************************************************)
(* Model of src/main.py: the PJSKGuessGame plugin.                         *)
(*                                                                         *)
(* The plugin keeps one dict, active_games, keyed by the chat scope        *)
(* (event.unified_msg_origin).  Its two command handlers, start_game and   *)
(* process_guess, are async generators: the host resumes them after each   *)
(* yield, and other handlers run while one is suspended at a yield.  Each  *)
(* action of start_game below is its code between two suspension points.   *)
(* process_guess touches the plugin's state before its first yield only, so *)
(* it is one action, which yields all its results.                         *)
(***************************************************************************)
EXTENDS Integers, Sequences, FiniteSets, TLC

\* ------------------------------------------------------------------ bounds

\* Highest value of the clock, in seconds.
MaxTime == 1
\* The configured max_attempts (any positive integer in the code, 5 by default).
MaxAttempts == 2
\* Guesses one round takes (the code sets no limit).
MaxGuesses == 3
\* The configured timeout, in seconds (any integer in the code, 60 by default).
Timeout == 1
\* Longest guess the answer matcher is applied to.
MaxLen == 3
\* Largest image width, image height and configured crop_size, in pixels.
MaxDim == 4
\* The crop_size configured while the game runs (150 by default).
CropSize == 2

\* ------------------------------------------------------------------ strings

\* A string is a sequence of characters.  "M" is the upper case of "m"; "x" has
\* no case distinction worth modelling; " " is whitespace.
Alphabet == {"m", "M", "x", " "}

\* str.lower() on one character.
LowerChar(c) == IF c = "M" THEN "m" ELSE c

\* str.lower()
Lower(str) == [i \in 1..Len(str) |-> LowerChar(str[i])]

IsSpace(c) == c = " "

RECURSIVE LStrip(_)
LStrip(str) ==
    IF str # <<>> /\ IsSpace(Head(str)) THEN LStrip(Tail(str)) ELSE str

RECURSIVE RStrip(_)
RStrip(str) ==
    IF str # <<>> /\ IsSpace(str[Len(str)])
    THEN RStrip(SubSeq(str, 1, Len(str) - 1))
    ELSE str

\* str.strip(): surrounding whitespace removed, inner whitespace kept.
Strip(str) == RStrip(LStrip(str))

\* All strings of at most n characters.
StringsUpTo(n) == UNION {[1..k -> Alphabet] : k \in 0..n}

\* ------------------------------------------------------------------ data

Scopes == {"s1", "s2"}

\* scope_allow_list of the configuration (spec section 6).
scope_allow_list == {"s1"}

\* Canonical names, as get_character_images takes them from the file names.
NameMx == <<"M", "x">>
NameX == <<"x">>
NamePadded == <<"m", " ">>

\* The (character, image_path) pairs a scan of image_dir finds when it holds
\* an image.
Candidates == { [character |-> NameMx, image_path |-> "Mx_1.jpg"] }

\* The contents self.aliases can have: the alias file's mapping, or {} when
\* loading it failed.
AliasesFile == (NameMx :> << <<"m">>, <<"M", "m">> >>) @@ (NameX :> << >>)
AliasesNone == << >>
AliasesPadded ==
    (NameMx :> << <<" ", "m">> >>) @@ (NamePadded :> << <<"x", " ">> >>)

\* The value standing for "the scope is no key of active_games".
NoGame == [absent |-> TRUE]

\* What get_random_image returns as (None, None, None).
NoImage == [character |-> <<>>, image_path |-> "none"]

\* The yields start_game can be suspended at with a game registered: after the
\* teaser and after the prompt.
Pcs == {"teaser", "prompt"}

VARIABLES
    config,        \* self.config: max_attempts, timeout, crop_size
    aliases,       \* self.aliases
    images,        \* what get_character_images finds in image_dir
    active_games,  \* self.active_games: scope -> game dict, or NoGame
    files,         \* the teaser files present in image_dir/cropped
    now,           \* the clock, in seconds
    handlers,      \* per scope and yield: the start_game handlers suspended there
    revealed,      \* per scope: the full image was yielded in its current round
    terminated,    \* terminate has run: the plugin is unloaded
    last,          \* the handler step last taken: scope, result yielded, exception
    mt,            \* one application of is_correct_answer
    cr             \* one application of crop_random_region

vars ==
    <<config, aliases, images, active_games, files, now, handlers, revealed,
      terminated, last, mt, cr>>

MtIdle == [guess |-> <<>>, character |-> <<>>, applied |-> FALSE, result |-> FALSE]

\* No image cropped yet: img.size, and the box handed to img.crop.
CrIdle(w, h) ==
    [ width |-> w, height |-> h, applied |-> FALSE,
      left |-> 0, top |-> 0, right |-> 0, bottom |-> 0 ]

Event(op, s, msg, exc) == [op |-> op, scope |-> s, msg |-> msg, raised |-> exc]

\* ------------------------------------------------------------------ matcher

\* self.aliases.get(character, [])
AliasesOf(character) ==
    IF character \in DOMAIN aliases THEN aliases[character] ELSE << >>

\* is_correct_answer: the guess is stripped and lower-cased; the canonical name
\* and the aliases are lower-cased only.
is_correct_answer(guess, character) ==
    LET normalized_guess == Lower(Strip(guess)) IN
    \/ normalized_guess = Lower(character)
    \/ \E i \in 1..Len(AliasesOf(character)) :
           normalized_guess = Lower(AliasesOf(character)[i])

\* ------------------------------------------------------------------ helpers

\* A handler of scope s reaches, or leaves, the yield pc.
Arrive(s, pc) == [handlers EXCEPT ![s][pc] = @ + 1]
Leave(s, pc) == [handlers EXCEPT ![s][pc] = @ - 1]

\* save_cropped_image: the file is named by the clock,
\* cropped_<strftime('%Y%m%d%H%M%S')>.jpg, one name for each second.
CroppedPath(t) == t

\* The check of line 108 left out and the scan not repeated: a pair found by
\* an earlier scan is returned although image_dir is empty now.
RandomImageStale == Candidates \cup {NoImage}

\* get_random_image: None when the scan finds nothing or Image.open raises,
\* otherwise any of the scanned pairs.
RandomImage == IF images = {} THEN {NoImage} ELSE images \cup {NoImage}

\* The check of line 166 left out.
StartRejectedNever(s) == FALSE

\* start_game, line 166: session_id in self.active_games
StartRejected(s) == active_games[s] # NoGame

\* process_guess, line 217: session_id not in self.active_games
GuessRejected(s) == active_games[s] = NoGame

\* The game dict start_game stores.
NewGame(pick) ==
    [ character |-> pick.character,
      attempts |-> 0,
      max_attempts |-> config.max_attempts,
      start_time |-> now,
      image_path |-> pick.image_path,
      cropped_path |-> CroppedPath(now) ]

\* ------------------------------------------------------------------ state

\* __init__ (lines 25-29) apart from the configuration: nothing registered,
\* no teaser written.
IdleInit ==
    /\ images \in {{}, Candidates}
    /\ active_games = [s \in Scopes |-> NoGame]
    /\ files = {}
    /\ now = 0
    /\ handlers = [s \in Scopes |-> [pc \in Pcs |-> 0]]
    /\ revealed = [s \in Scopes |-> FALSE]
    /\ terminated = FALSE
    /\ last = Event("init", "", "none", "none")

GameInit ==
    /\ config =
          [max_attempts |-> MaxAttempts, timeout |-> Timeout, crop_size |-> CropSize]
    /\ IdleInit
    /\ cr = CrIdle(0, 0)

Init ==
    /\ GameInit
    /\ aliases = AliasesFile
    /\ mt = MtIdle

\* ------------------------------------------------------------------ start_game

\* start_game from its call to its first yield (lines 163-191).  There is no
\* await on the way, so the check, the draw, the crop, the save and the
\* registration are one step.  save_cropped_image may raise (mkdir, save): the
\* exception leaves the handler before anything is registered.
StartGame(s) ==
    /\ ~terminated
    /\ UNCHANGED <<config, aliases, images, now, terminated, mt, cr>>
    /\ IF StartRejected(s)
       THEN /\ last' = Event("start", s, "already_active", "none")
            /\ UNCHANGED <<active_games, files, handlers, revealed>>
       ELSE \E pick \in RandomImage, saved \in BOOLEAN :
              IF pick = NoImage
              THEN /\ last' = Event("start", s, "image_failed", "none")
                   /\ UNCHANGED <<active_games, files, handlers, revealed>>
              ELSE IF ~saved
              THEN /\ last' = Event("start", s, "none", "OSError")
                   /\ UNCHANGED <<active_games, files, handlers, revealed>>
              ELSE /\ files' = files \cup {CroppedPath(now)}
                   /\ active_games' = [active_games EXCEPT ![s] = NewGame(pick)]
                   /\ handlers' = Arrive(s, "teaser")
                   /\ revealed' = [revealed EXCEPT ![s] = FALSE]
                   /\ last' = Event("start", s, "teaser", "none")

\* start_game resumed after the teaser: the prompt is yielded (line 192).
StartPrompt(s) ==
    /\ handlers[s]["teaser"] > 0
    /\ handlers' = [handlers EXCEPT ![s]["teaser"] = @ - 1, ![s]["prompt"] = @ + 1]
    /\ last' = Event("start_prompt", s, "prompt", "none")
    /\ UNCHANGED <<config, aliases, images, active_games, files, now, revealed,
                   terminated, mt, cr>>

\* The cleanup of start_game's finally block (lines 199-209) for scope s; removed
\* says whether os.remove succeeded (its failure is logged and swallowed).
CleanupFiles(s, removed) ==
    IF active_games[s] # NoGame
       /\ active_games[s].cropped_path \in files
       /\ removed
    THEN files \ {active_games[s].cropped_path}
    ELSE files

\* What the cleanup logs: logger.info after os.remove, logger.error when it
\* raised, nothing when there was no game or no file.
CleanupLog(s, removed) ==
    IF active_games[s] # NoGame /\ active_games[s].cropped_path \in files
    THEN IF removed THEN "log_removed" ELSE "log_remove_failed"
    ELSE "none"

\* self.active_games.clear() in place of the del of line 209.
CleanupGamesAll(s) == [t \in Scopes |-> NoGame]

\* The del of line 209 left out.
CleanupGamesKept(s) == active_games

CleanupGames(s) ==
    IF active_games[s] # NoGame
    THEN [active_games EXCEPT ![s] = NoGame]
    ELSE active_games

\* start_game resumed after the prompt (lines 195-209).  game_session has a
\* yield in its body (line 269), so it is an async generator function: calling
\* it runs none of its body, and "await" on the object it returns raises
\* TypeError at once.  The finally block runs and the TypeError leaves the
\* handler.  No session waiter is ever armed.
StartAwaitSession(s) ==
    /\ handlers[s]["prompt"] > 0
    /\ \E removed \in BOOLEAN :
          /\ files' = CleanupFiles(s, removed)
          /\ last' = Event("start_end", s, CleanupLog(s, removed), "TypeError")
    /\ active_games' = CleanupGames(s)
    /\ handlers' = Leave(s, "prompt")
    /\ UNCHANGED <<config, aliases, images, now, revealed, terminated, mt, cr>>

\* ------------------------------------------------------------------ process_guess

\* The ceiling of line 233 reached one guess early.
GuessOutcomeEarly(game, guess) ==
    IF is_correct_answer(guess, game.character) THEN "correct"
    ELSE IF game.attempts + 1 >= game.max_attempts THEN "game_over"
    ELSE "wrong"

\* The tests of lines 225 and 233 in the other order.
GuessOutcomeCeilingFirst(game, guess) ==
    IF game.attempts >= game.max_attempts THEN "game_over"
    ELSE IF is_correct_answer(guess, game.character) THEN "correct"
    ELSE "wrong"

\* What process_guess decides once attempts is incremented (lines 225-241).
GuessOutcome(game, guess) ==
    IF is_correct_answer(guess, game.character) THEN "correct"
    ELSE IF game.attempts >= game.max_attempts THEN "game_over"
    ELSE "wrong"

\* The return of line 219 left out: the handler goes on to its last yield.
RejectGuessFallsThrough(s) ==
    /\ last' = Event("guess", s, "wrong", "none")
    /\ UNCHANGED <<active_games, revealed>>

\* process_guess when the scope has no game (lines 217-219).
RejectGuess(s) ==
    /\ last' = Event("guess", s, "no_active_round", "none")
    /\ UNCHANGED <<active_games, revealed>>

\* process_guess (lines 211-241).  The outcome "wrong" yields the text of line
\* 241; "correct" yields the full image and the text of line 228, "game_over"
\* the full image and the text of line 236, each followed by stop_event().
\* The game is left in active_games whatever the outcome.
ProcessGuess(s, guess) ==
    /\ ~terminated
    /\ UNCHANGED <<config, aliases, images, files, now, handlers, terminated, mt, cr>>
    /\ IF GuessRejected(s)
       THEN RejectGuess(s)
       ELSE LET game == [active_games[s] EXCEPT !.attempts = @ + 1]
                outcome == GuessOutcome(game, guess)
            IN  /\ game.attempts <= MaxGuesses
                /\ active_games' = [active_games EXCEPT ![s] = game]
                /\ last' = Event("guess", s, outcome, "none")
                /\ revealed' =
                       IF outcome = "wrong" THEN revealed
                       ELSE [revealed EXCEPT ![s] = TRUE]

\* ------------------------------------------------------------------ the rest

\* terminate (lines 274-286), which the host calls once, when it unloads the
\* plugin; no command reaches the plugin afterwards, but the handlers already
\* suspended are still resumed.  Every .jpg of the cropped directory is
\* removed, each os.remove may fail; active_games is not touched.
Terminate ==
    /\ ~terminated
    /\ terminated' = TRUE
    /\ files' \in SUBSET files
    /\ last' = Event("terminate", "", "none", "none")
    /\ UNCHANGED <<config, aliases, images, active_games, now, handlers, revealed,
                   mt, cr>>

\* Time passes.
Tick ==
    /\ now < MaxTime
    /\ now' = now + 1
    /\ UNCHANGED <<config, aliases, images, active_games, files, handlers, revealed,
                   terminated, last, mt, cr>>

\* The guesses the users send.
Guesses == { <<"x">>, <<" ", "M", " ">>, <<"m", "x", " ">> }

Next ==
    \/ \E s \in Scopes : StartGame(s)
    \/ \E s \in Scopes : StartPrompt(s)
    \/ \E s \in Scopes : StartAwaitSession(s)
    \/ \E s \in Scopes, guess \in Guesses : ProcessGuess(s, guess)
    \/ Terminate
    \/ Tick

Spec == Init /\ [][Next]_vars

\* The host resumes every handler it has suspended: it iterates the generator
\* to its end once the yielded result is sent.
FairSpec ==
    /\ Spec
    /\ \A s \in Scopes : WF_vars(StartPrompt(s)) /\ WF_vars(StartAwaitSession(s))

\* ------------------------------------------------------------------ the matcher alone

\* is_correct_answer applied to one guess, one canonical name and one alias table.
MatchInit ==
    /\ GameInit
    /\ aliases \in {AliasesFile, AliasesNone, AliasesPadded}
    /\ mt \in [ guess : StringsUpTo(MaxLen),
                character : {NameMx, NameX, NamePadded},
                applied : {FALSE},
                result : {FALSE} ]

MatchApply ==
    /\ ~mt.applied
    /\ mt' = [mt EXCEPT !.applied = TRUE,
                         !.result = is_correct_answer(mt.guess, mt.character)]
    /\ UNCHANGED <<config, aliases, images, active_games, files, now, handlers,
                   revealed, terminated, last, cr>>

MatchNext == MatchApply

MatchSpec == MatchInit /\ [][MatchNext]_vars

\* ------------------------------------------------------------------ the crop alone

Min(a, b) == IF a <= b THEN a ELSE b

\* crop_random_region, line 126: min(crop_size, width, height)
ClampedSize(crop_size, w, h) == Min(crop_size, Min(w, h))

\* random.randint(0, dim) in place of random.randint(0, dim - size): the offset
\* is drawn from the whole side.
CropOffsetsWide(dim, size) == 0..dim

\* crop_random_region, lines 129-130: random.randint(0, dim - size), both ends
\* included.
CropOffsets(dim, size) == 0..(dim - size)

\* crop_random_region applied to one image under one configured crop_size.
CropInit ==
    /\ config \in [max_attempts : {MaxAttempts}, timeout : {Timeout},
                    crop_size : 1..MaxDim]
    /\ IdleInit
    /\ aliases = AliasesFile
    /\ mt = MtIdle
    /\ \E w \in 1..MaxDim, h \in 1..MaxDim : cr = CrIdle(w, h)

\* crop_random_region (lines 120-132): the box (left, top, left + crop_size,
\* top + crop_size) handed to img.crop.
CropApply ==
    /\ ~cr.applied
    /\ LET crop_size == ClampedSize(config.crop_size, cr.width, cr.height) IN
       \E left \in CropOffsets(cr.width, crop_size),
          top \in CropOffsets(cr.height, crop_size) :
            cr' = [cr EXCEPT !.applied = TRUE,
                             !.left = left,
                             !.top = top,
                             !.right = left + crop_size,
                             !.bottom = top + crop_size]
    /\ UNCHANGED <<config, aliases, images, active_games, files, now, handlers,
                   revealed, terminated, last, mt>>

CropNext == CropApply

CropSpec == CropInit /\ [][CropNext]_vars

\* ------------------------------------------------------------------ claims

\* The step taken is a step of a handler (every action but Tick leaves the
\* clock alone and writes last).
HandlerStep(op, s) == now' = now /\ last'.op = op /\ last'.scope = s

\* The start_game handlers of scope s that hold a registered round.
RoundsInProgress(s) == handlers[s]["teaser"] + handlers[s]["prompt"]

Active(s) == active_games[s] # NoGame

\* C1: no scope ever has more than one round in progress, and a start for a
\* scope with a game in active_games yields the "already active" text and
\* changes neither active_games nor the teaser files nor the handlers in flight.
C1_StartRejectedWhileActive ==
    /\ [](\A s \in Scopes : RoundsInProgress(s) <= 1)
    /\ [][\A s \in Scopes :
            (HandlerStep("start", s) /\ Active(s)) =>
                /\ last'.msg = "already_active"
                /\ active_games' = active_games
                /\ files' = files
                /\ handlers' = handlers]_vars

C1_Witness ==
    \E s \in Scopes :
        /\ last = Event("start", s, "already_active", "none")
        /\ Active(s)
        /\ active_games[s].attempts > 0
        /\ RoundsInProgress(s) = 1

\* C2: every game in active_games has attempts <= max_attempts.
C2_AttemptsWithinMax ==
    \A s \in Scopes : Active(s) => active_games[s].attempts <= active_games[s].max_attempts

\* The results that carry the full image.
FullImage(msg) == msg \in {"correct", "game_over"}

\* C3: the full image is yielded at most once in a round: no step yields it
\* for a scope whose current round has had it yielded already.
C3_OneRevealPerRound ==
    [][\A s \in Scopes :
          ~(now' = now /\ last'.scope = s /\ FullImage(last'.msg) /\ revealed[s])]_vars

\* C4: right after a guess that yields the full image (a correct guess or the
\* last attempt) the scope has no game in active_games.
C4_AbsentAfterTerminalGuess ==
    [][\A s \in Scopes :
          (HandlerStep("guess", s) /\ FullImage(last'.msg)) => ~Active(s)']_vars

\* C5: a game leaves active_games only after a trigger has ended its round,
\* that is after the full image was yielded for it.
C5_RemovedOnlyAfterTrigger ==
    [][\A s \in Scopes : (Active(s) /\ ~Active(s)') => revealed[s]]_vars

C7_UnguessedRoundTimesOut ==
    [][\A s \in Scopes :
          (Active(s) /\ ~Active(s)' /\ active_games[s].attempts = 0) =>
              /\ revealed'[s]
              /\ now >= active_games[s].start_time + config.timeout]_vars

\* Trimmed and lower-cased, the normal form the claim compares in.
Normalized(str) == Lower(Strip(str))

\* C8: is_correct_answer is true exactly when the normalized guess equals the
\* normalized canonical name or one of its normalized aliases.
C8_MatchIffNormalizedEqual ==
    mt.applied =>
        (mt.result <=>
            \/ Normalized(mt.guess) = Normalized(mt.character)
            \/ \E i \in 1..Len(AliasesOf(mt.character)) :
                   Normalized(mt.guess) = Normalized(AliasesOf(mt.character)[i]))

\* C9: a guess for a scope with no game in active_games yields the "no active
\* round" text and changes nothing: no game appears, no counter moves, no
\* full image is yielded.
C9_GuessWithoutRoundRejected ==
    [][\A s \in Scopes :
          (HandlerStep("guess", s) /\ ~Active(s)) =>
              /\ last'.msg = "no_active_round"
              /\ active_games' = active_games
              /\ revealed' = revealed
              /\ files' = files]_vars

C9_Witness ==
    \E s \in Scopes, other \in Scopes :
        /\ last = Event("guess", s, "no_active_round", "none")
        /\ ~Active(s)
        /\ Active(other)
        /\ active_games[other].attempts > 0

\* C10: only a scope of the allow-list ever has a game in active_games.
C10_OnlyAllowedScopesPlay ==
    \A s \in Scopes : Active(s) => s \in scope_allow_list

\* C11: two scopes with a game in active_games at the same time never hold the
\* same cropped_path, games started within one clock second included.
C11_DistinctTeaserPaths ==
    \A s \in Scopes, t \in Scopes :
        (s # t /\ Active(s) /\ Active(t)) =>
            active_games[s].cropped_path # active_games[t].cropped_path

\* C12: a start for a free scope while image_dir holds no image yields the
\* "image failed" text alone, raises nothing, registers no game and writes no
\* teaser: the scope is as free as before.
C12_EmptyPoolStartFails ==
    [][\A s \in Scopes :
          (HandlerStep("start", s) /\ ~Active(s) /\ images = {}) =>
              /\ last' = Event("start", s, "image_failed", "none")
              /\ active_games' = active_games
              /\ files' = files
              /\ handlers' = handlers]_vars

C12_Witness ==
    \E s \in Scopes :
        /\ last = Event("start", s, "image_failed", "none")
        /\ images = {}
        /\ ~Active(s)
        /\ files = {}

\* C13: a start for a free scope that registers no game has told the user so
\* and has raised nothing out of the handler, whether the image could not be
\* opened, cropped or saved.
C13_TeaserFailureReported ==
    [][\A s \in Scopes :
          (HandlerStep("start", s) /\ ~Active(s) /\ active_games'[s] = NoGame) =>
              /\ last'.msg = "image_failed"
              /\ last'.raised = "none"]_vars

\* C14: a guess that does not match and leaves attempts below max_attempts
\* adds exactly one to attempts, yields the "wrong" text and no full image, and
\* leaves the game in active_games with every other field as it was.
C14_WrongGuessCountsOnce ==
    [][\A s \in Scopes, guess \in Guesses :
          ( /\ ProcessGuess(s, guess)
            /\ Active(s)
            /\ ~is_correct_answer(guess, active_games[s].character)
            /\ active_games[s].attempts + 1 < active_games[s].max_attempts ) =>
              /\ last' = Event("guess", s, "wrong", "none")
              /\ revealed' = revealed
              /\ active_games' =
                    [active_games EXCEPT ![s].attempts = @ + 1]
              /\ files' = files]_vars

C14_Witness ==
    \E s \in Scopes :
        /\ last = Event("guess", s, "wrong", "none")
        /\ Active(s)
        /\ active_games[s].attempts = 1
        /\ active_games[s].attempts < active_games[s].max_attempts
        /\ ~revealed[s]

\* C15: once terminate has run, active_games is empty and no teaser recorded
\* in it is left on disk.
C15_TerminateEmptiesRegistry ==
    terminated => (files = {} /\ \A s \in Scopes : ~Active(s))

\* C16: the full image of a round is never out while its game is still in
\* active_games, where a later guess would find it.
C16_NoActiveGameAfterReveal ==
    \A s \in Scopes : revealed[s] => ~Active(s)

\* C17: until terminate runs, the teaser of every game in active_games is on
\* disk.
C17_ActiveGameHasTeaser ==
    ~terminated =>
        \A s \in Scopes : Active(s) => active_games[s].cropped_path \in files

\* C18: a matching guess for a scope with a game yields the "correct" text and
\* the full image whatever attempts has reached, the max_attempts-th guess
\* included: the match is tested before the ceiling.
C18_MatchBeatsCeiling ==
    [][\A s \in Scopes, guess \in Guesses :
          ( /\ ProcessGuess(s, guess)
            /\ Active(s)
            /\ is_correct_answer(guess, active_games[s].character) ) =>
              /\ last' = Event("guess", s, "correct", "none")
              /\ revealed'[s]]_vars

C18_Witness ==
    \E s \in Scopes :
        /\ last = Event("guess", s, "correct", "none")
        /\ Active(s)
        /\ active_games[s].attempts = active_games[s].max_attempts
        /\ revealed[s]

\* C19: the box crop_random_region hands to img.crop is a square of side
\* min(crop_size, width, height) lying inside the image, whatever offsets are
\* drawn, and it is the whole image only if neither side of the image exceeds
\* the configured crop_size.
C19_CropInsideImage ==
    cr.applied =>
        LET side == cr.right - cr.left IN
        /\ side = cr.bottom - cr.top
        /\ side >= 1
        /\ side <= config.crop_size /\ side <= cr.width /\ side <= cr.height
        /\ side = config.crop_size \/ side = cr.width \/ side = cr.height
        /\ 0 <= cr.left /\ cr.right <= cr.width
        /\ 0 <= cr.top /\ cr.bottom <= cr.height
        /\ (side = cr.width /\ side = cr.height) =>
               (cr.width <= config.crop_size /\ cr.height <= config.crop_size)

C19_Witness ==
    /\ cr.applied
    /\ cr.width > config.crop_size
    /\ cr.height > cr.width
    /\ cr.left > 0
    /\ cr.right = cr.width
    /\ cr.bottom < cr.height

\* C20: a start_game or process_guess step taken for one scope leaves the
\* entry of every other scope in active_games as it was.
C20_OtherScopeUntouched ==
    [][\A a \in Scopes, b \in Scopes :
          (a # b /\ now' = now /\ last'.scope = a) =>
              active_games'[b] = active_games[b]]_vars

C20_Witness ==
    \E a \in Scopes, b \in Scopes :
        /\ a # b
        /\ last.scope = a
        /\ last.op = "start_end"
        /\ ~Active(a)
        /\ Active(b)
        /\ active_games[b].attempts > 0

====
